---- MODULE Spec2Model ----
(***************************************************************************)
(* State-machine model of SorobanPublisher (apps/frontend/app/layout.tsx,  *)
(* lines 70-296): publishToOracle wrapped in the recursive retry helper,   *)
(* the proof / legacy branches and the confirmation polling of             *)
(* waitForTransaction.  Every await of the code is one step of a call; the *)
(* ledger's answers are the nondeterministic inputs of the steps.          *)
(***************************************************************************)
EXTENDS Integers, Sequences, FiniteSets, TLC

\* ---------------------------------------------------------------- bounds
MaxPrice == 2
MaxTimestamp == 2

\* ------------------------------------------------------ program constants
maxRetries == 3
retryDelay == 1000
maxAttempts == 20
pollDelay == 1500

\* ------------------------------------------------------------ input sets
Callers == {"A", "B"}
Assets == {"TSLA", "AAPL"}
Commits == {"c1", "c2"}

\* an optional string of PublishParams: undefined, "" or hex digits
Undefined == <<"undefined">>
OptionalHex == {Undefined, <<>>, <<"a", "b", "c">>}

PublishParams ==
  [assetId : Assets, price : 1..MaxPrice, timestamp : 1..MaxTimestamp,
   commit : Commits, proof : OptionalHex, proofPublicInputs : OptionalHex]

NoParams ==
  [assetId |-> "-", price |-> 0, timestamp |-> 0, commit |-> "-",
   proof |-> Undefined, proofPublicInputs |-> Undefined]

\* rpc.Api.GetTransactionStatus plus the Pending answer of the status query
Statuses == {"NOT_FOUND", "SUCCESS", "FAILED", "PENDING"}
NoStatus == "-"

NoHash == [src |-> "none"]
NoTx == [entry |-> "none"]
NoError == [kind |-> "none", attempt |-> 0]
NoResult == [none |-> TRUE]

VARIABLES
  pc,        \* position of each publishToOracle call
  params,    \* the PublishParams the call was given
  retries,   \* `retries` of the innermost active retry frame
  tx,        \* the assembled transaction of the running attempt
  txHash,    \* `txHash` of the running attempt
  status,    \* `result.status` in waitForTransaction
  attempts,  \* `attempts` in waitForTransaction
  result,    \* the PublishResult the call returned
  error,     \* the error caught by the innermost retry frame / thrown
  sent,      \* history: the requests the call transmitted to the ledger
  accepted,  \* history: the ledger returned a transaction id to the call
  sawFailed, \* history: a status query of the call answered FAILED
  sawTimeout, \* history: a polling of the call ran out with NOT_FOUND
  runs,      \* history: how many times retry has started fn
  backoffs,  \* history: the delays of the backoff waits the call has done
  pollWait,  \* the delay slept before the latest status query of the attempt
  abandoned  \* the caller has stopped awaiting the returned promise

vars == <<pc, params, retries, tx, txHash, status, attempts, result, error,
          sent, accepted, sawFailed, sawTimeout, runs, backoffs, pollWait,
          abandoned>>

\* ------------------------------------------------------ pure helpers

\* JavaScript truthiness of an optional string
Truthy(s) == s # Undefined /\ s # <<>>

\* the attestations used when two calls run interleaved
PairParams ==
  {p \in PublishParams :
     /\ p.price = 1 /\ p.timestamp = 1
     /\ p.commit = (IF p.assetId = "TSLA" THEN "c1" ELSE "c2")
     /\ p.proofPublicInputs = p.proof /\ p.proof # <<>>
     /\ (Truthy(p.proof) => p.assetId = "TSLA")}

\* toAsset: "TSLA" -> { tag: "Other", values: ["TSLA"] }
toAsset(assetId) == [tag |-> "Other", values |-> <<assetId>>]

\* the condition of the proof branch
UsesProofBranch(p) == Truthy(p.proof) /\ Truthy(p.proofPublicInputs)

\* proof.slice(0, 32)
Slice32(s) == IF Len(s) <= 32 THEN s ELSE SubSeq(s, 1, 32)

\* Buffer.from(hex, 'hex').toString('hex'): whole bytes only
HexRoundTrip(s) == SubSeq(s, 1, 2 * (Len(s) \div 2))

\* "zk_" + Buffer.from(params.proof.slice(0, 32), 'hex').toString('hex')
MockTxHash(p) ==
  [src |-> "mock", text |-> <<"z", "k", "_">> \o HexRoundTrip(Slice32(p.proof))]

\* client.set_asset_price({asset_id, price, timestamp})
LegacyRequest(p) ==
  [entry |-> "set_asset_price", asset_id |-> toAsset(p.assetId),
   price |-> p.price, timestamp |-> p.timestamp]

\* the hash the ledger returns for the submission of attempt n of call c
LedgerHash(c, n) == [src |-> "ledger", call |-> c, attempt |-> n]

\* number of the attempt run by the retry frame whose counter is r
AttemptNo(r) == maxRetries - r + 1

\* a retry that stamps the request anew
AttemptParamsRestamped(p, n) ==
  IF n > 1 THEN [p EXCEPT !.timestamp = (p.timestamp % MaxTimestamp) + 1]
  ELSE p

\* the `params` that run n of fn reads: the argument captured by the closure
AttemptParams(p, n) == p

\* a retry that tests `retries < 0`
RetriesExhaustedLate(r) == r < 0

\* retry: `if (retries <= 0) throw error`
RetriesExhausted(r) == r <= 0

\* retry: `this.retry(fn, retries - 1)`
NextRetries(r) == r - 1

\* a catch that throws a generic replacement
RethrowGeneric(err) == [kind |-> "E_GENERIC", attempt |-> err.attempt]

\* publishToOracle: `catch (error) { console.error(...); throw error; }`
Rethrow(err) == err

\* a backoff that scales the delay by the retries that remain
BackoffDelayShrinking(r) == retryDelay * r

\* retry: `setTimeout(resolve, this.retryDelay)` of the frame with counter r
BackoffDelay(r) == retryDelay

\* a send whose missing hash goes unnoticed
HashMissingNever(h) == FALSE

\* publishToOracle: `if (!txHash)`
HashMissing(h) == h = NoHash

\* a polling loop that runs one round too many
KeepPollingOffByOne(st, n) == st = "NOT_FOUND" /\ n <= maxAttempts

\* waitForTransaction: the condition of the polling loop
KeepPolling(st, n) == st = "NOT_FOUND" /\ n < maxAttempts

\* ---------------------------------------------------------------- Init
Init ==
  /\ pc = [c \in Callers |-> "idle"]
  /\ params = [c \in Callers |-> NoParams]
  /\ retries = [c \in Callers |-> maxRetries]
  /\ tx = [c \in Callers |-> NoTx]
  /\ txHash = [c \in Callers |-> NoHash]
  /\ status = [c \in Callers |-> NoStatus]
  /\ attempts = [c \in Callers |-> 0]
  /\ result = [c \in Callers |-> NoResult]
  /\ error = [c \in Callers |-> NoError]
  /\ sent = [c \in Callers |-> {}]
  /\ accepted = [c \in Callers |-> FALSE]
  /\ sawFailed = [c \in Callers |-> FALSE]
  /\ sawTimeout = [c \in Callers |-> FALSE]
  /\ runs = [c \in Callers |-> 0]
  /\ backoffs = [c \in Callers |-> <<>>]
  /\ pollWait = [c \in Callers |-> 0]
  /\ abandoned = [c \in Callers |-> FALSE]

\* ------------------------------------------------------ shared fragments

\* a retry that reports the exhausted retries as a result instead of throwing
ThrowsAsValue(c, kind) ==
  /\ error' = [error EXCEPT ![c] =
                 [kind |-> kind, attempt |-> AttemptNo(retries[c])]]
  /\ pc' = [pc EXCEPT ![c] =
              IF RetriesExhausted(retries[c]) THEN "done" ELSE "backoff"]
  /\ result' = [result EXCEPT ![c] =
                  IF RetriesExhausted(retries[c])
                  THEN [txHash |-> NoHash, success |-> FALSE] ELSE @]
  /\ tx' = [tx EXCEPT ![c] = NoTx]
  /\ txHash' = [txHash EXCEPT ![c] = NoHash]
  /\ attempts' = [attempts EXCEPT ![c] = 0]
  /\ UNCHANGED <<params, retries>>

\* An attempt of call c throws an error of the given kind: the frame of fn
\* is unwound (its locals are gone), the catch of publishToOracle rethrows
\* the error, the catch of retry either throws it to the caller (no retries
\* left) or starts the backoff wait.  `status` keeps the last answer of the
\* ledger until the next attempt starts.
Throws(c, kind) ==
  LET err == Rethrow([kind |-> kind, attempt |-> AttemptNo(retries[c])])
  IN /\ error' = [error EXCEPT ![c] = err]
     /\ pc' = [pc EXCEPT ![c] =
                 IF RetriesExhausted(retries[c]) THEN "failed" ELSE "backoff"]
     /\ tx' = [tx EXCEPT ![c] = NoTx]
     /\ txHash' = [txHash EXCEPT ![c] = NoHash]
     /\ attempts' = [attempts EXCEPT ![c] = 0]
     /\ UNCHANGED <<params, retries, result>>

\* a conclusion that tests the polling bound before the status
ConcludesTimeoutFirst(c, st, n) ==
  /\ status' = [status EXCEPT ![c] = st]
  /\ sawFailed' = [sawFailed EXCEPT ![c] = @ \/ st = "FAILED"]
  /\ sawTimeout' = [sawTimeout EXCEPT ![c] =
                      @ \/ st = "NOT_FOUND" \/ n >= maxAttempts]
  /\ IF n >= maxAttempts \/ st = "NOT_FOUND" THEN Throws(c, "E_TIMEOUT")
     ELSE IF st = "FAILED" THEN Throws(c, "E_ONCHAIN")
     ELSE /\ pc' = [pc EXCEPT ![c] = "done"]
          /\ result' = [result EXCEPT ![c] =
                          [txHash |-> txHash[c], success |-> TRUE]]
          /\ attempts' = [attempts EXCEPT ![c] = n]
          /\ UNCHANGED <<params, retries, error, tx, txHash>>

\* a polling that starts over when its bound is reached
ConcludesPollsAgain(c, st, n) ==
  /\ status' = [status EXCEPT ![c] = st]
  /\ sawFailed' = [sawFailed EXCEPT ![c] = @ \/ st = "FAILED"]
  /\ UNCHANGED sawTimeout
  /\ IF st = "FAILED" THEN Throws(c, "E_ONCHAIN")
     ELSE IF st = "NOT_FOUND"
     THEN /\ pc' = [pc EXCEPT ![c] = "polling"]
          /\ attempts' = [attempts EXCEPT ![c] = 0]
          /\ UNCHANGED <<params, retries, result, error, tx, txHash>>
     ELSE /\ pc' = [pc EXCEPT ![c] = "done"]
          /\ result' = [result EXCEPT ![c] =
                          [txHash |-> txHash[c], success |-> TRUE]]
          /\ attempts' = [attempts EXCEPT ![c] = n]
          /\ UNCHANGED <<params, retries, error, tx, txHash>>

\* a retry that goes on after fn has returned its result
ConcludesWithoutReturn(c, st, n) ==
  /\ status' = [status EXCEPT ![c] = st]
  /\ sawFailed' = [sawFailed EXCEPT ![c] = @ \/ st = "FAILED"]
  /\ sawTimeout' = [sawTimeout EXCEPT ![c] = @ \/ st = "NOT_FOUND"]
  /\ IF st = "FAILED" THEN Throws(c, "E_ONCHAIN")
     ELSE IF st = "NOT_FOUND" THEN Throws(c, "E_TIMEOUT")
     ELSE /\ pc' = [pc EXCEPT ![c] =
                      IF RetriesExhausted(retries[c]) THEN "done"
                      ELSE "backoff"]
          /\ result' = [result EXCEPT ![c] =
                          [txHash |-> txHash[c], success |-> TRUE]]
          /\ attempts' = [attempts EXCEPT ![c] = n]
          /\ UNCHANGED <<params, retries, error, tx, txHash>>

\* waitForTransaction after the polling loop, with the last status st and
\* the loop counter n
Concludes(c, st, n) ==
  /\ status' = [status EXCEPT ![c] = st]
  /\ sawFailed' = [sawFailed EXCEPT ![c] = @ \/ st = "FAILED"]
  /\ sawTimeout' = [sawTimeout EXCEPT ![c] = @ \/ st = "NOT_FOUND"]
  /\ IF st = "FAILED" THEN Throws(c, "E_ONCHAIN")
     ELSE IF st = "NOT_FOUND" THEN Throws(c, "E_TIMEOUT")
     ELSE /\ pc' = [pc EXCEPT ![c] = "done"]
          /\ result' = [result EXCEPT ![c] =
                          [txHash |-> txHash[c], success |-> TRUE]]
          /\ attempts' = [attempts EXCEPT ![c] = n]
          /\ UNCHANGED <<params, retries, error, tx, txHash>>

\* ---------------------------------------------------------------- actions

\* callers are named in the order of their calls
Earlier(c) == IF c = "B" THEN {"A"} ELSE {}

\* publishToOracle(p) is called: retry(fn) with retries = maxRetries
Invoke(c, P) ==
  /\ pc[c] = "idle"
  /\ \A d \in Earlier(c) : pc[d] # "idle"
  /\ \E p \in P : params' = [params EXCEPT ![c] = p]
  /\ pc' = [pc EXCEPT ![c] = "attempt"]
  /\ retries' = [retries EXCEPT ![c] = maxRetries]
  /\ UNCHANGED <<tx, txHash, status, attempts, result, error,
                 sent, accepted, sawFailed, sawTimeout,
                 runs, backoffs, pollWait, abandoned>>

\* fn, proof branch: the simulated success
PublishWithProof(c) ==
  /\ pc[c] = "attempt"
  /\ UsesProofBranch(AttemptParams(params[c], AttemptNo(retries[c])))
  /\ pc' = [pc EXCEPT ![c] = "done"]
  /\ result' = [result EXCEPT ![c] =
                  [txHash |-> MockTxHash(AttemptParams(params[c],
                                                       AttemptNo(retries[c]))),
                   success |-> TRUE]]
  /\ runs' = [runs EXCEPT ![c] = @ + 1]
  /\ UNCHANGED <<params, retries, tx, txHash, status, attempts, error,
                 sent, accepted, sawFailed, sawTimeout,
                 backoffs, pollWait, abandoned>>

\* fn, legacy branch: await client.set_asset_price(...)
BuildLegacy(c) ==
  /\ pc[c] = "attempt"
  /\ ~UsesProofBranch(AttemptParams(params[c], AttemptNo(retries[c])))
  /\ \E ok \in BOOLEAN :
       IF ok
       THEN /\ tx' = [tx EXCEPT ![c] =
                      LegacyRequest(AttemptParams(params[c],
                                                  AttemptNo(retries[c])))]
            /\ pc' = [pc EXCEPT ![c] = "built"]
            /\ UNCHANGED <<params, retries, result, error,
                           txHash, status, attempts>>
       ELSE Throws(c, "E_BUILD")
  /\ runs' = [runs EXCEPT ![c] = @ + 1]
  /\ UNCHANGED <<status, sent, accepted, sawFailed, sawTimeout,
                 backoffs, pollWait, abandoned>>

\* await tx.signAndSend(...): the signed envelope goes to the ledger
SignAndSend(c) ==
  /\ pc[c] = "built"
  /\ \E ok \in BOOLEAN :
       IF ok
       THEN /\ sent' = [sent EXCEPT ![c] = @ \cup {tx[c]}]
            /\ pc' = [pc EXCEPT ![c] = "signed"]
            /\ UNCHANGED <<params, retries, result, error,
                           tx, txHash, status, attempts>>
       ELSE /\ Throws(c, "E_SIGN")
            /\ UNCHANGED sent
  /\ UNCHANGED <<status, accepted, sawFailed, sawTimeout,
                 runs, backoffs, pollWait, abandoned>>

\* await tx.send() and the txHash check: the ledger answers with a hash,
\* with a response that holds no hash, or the call throws
Send(c) ==
  /\ pc[c] = "signed"
  /\ \E outcome \in {"hash", "nohash", "error"} :
       LET h == IF outcome = "hash"
                THEN LedgerHash(c, AttemptNo(retries[c])) ELSE NoHash
       IN IF outcome = "error"
          THEN /\ Throws(c, "E_SEND")
               /\ UNCHANGED accepted
          ELSE IF HashMissing(h)
          THEN /\ Throws(c, "E_NOHASH")
               /\ UNCHANGED accepted
          ELSE /\ txHash' = [txHash EXCEPT ![c] = h]
               /\ accepted' = [accepted EXCEPT ![c] = @ \/ h # NoHash]
               /\ pc' = [pc EXCEPT ![c] = "waiting"]
               /\ UNCHANGED <<params, retries, result, error,
                              tx, status, attempts>>
  /\ UNCHANGED <<status, sent, sawFailed, sawTimeout,
                 runs, backoffs, pollWait, abandoned>>

\* waitForTransaction: the first getTransaction and `attempts = 0`
FirstQuery(c) ==
  /\ pc[c] = "waiting"
  /\ \E answer \in Statuses \cup {"error"} :
       IF answer = "error"
       THEN /\ Throws(c, "E_QUERY")
            /\ UNCHANGED <<status, sawFailed, sawTimeout>>
       ELSE IF KeepPolling(answer, 0)
       THEN /\ status' = [status EXCEPT ![c] = answer]
            /\ attempts' = [attempts EXCEPT ![c] = 0]
            /\ pc' = [pc EXCEPT ![c] = "polling"]
            /\ UNCHANGED <<params, retries, result, error, tx, txHash,
                           sawFailed, sawTimeout>>
       ELSE Concludes(c, answer, 0)
  /\ pollWait' = [pollWait EXCEPT ![c] = 0]
  /\ UNCHANGED <<sent, accepted, runs, backoffs, abandoned>>

\* waitForTransaction, loop body: the 1500 ms wait, getTransaction again,
\* attempts++, and the loop condition
Repoll(c) ==
  /\ pc[c] = "polling"
  /\ \E answer \in Statuses \cup {"error"} :
       IF answer = "error"
       THEN /\ Throws(c, "E_QUERY")
            /\ UNCHANGED <<status, sawFailed, sawTimeout>>
       ELSE IF KeepPolling(answer, attempts[c] + 1)
       THEN /\ status' = [status EXCEPT ![c] = answer]
            /\ attempts' = [attempts EXCEPT ![c] = @ + 1]
            /\ UNCHANGED <<pc, params, retries, result, error, tx, txHash,
                           sawFailed, sawTimeout>>
       ELSE Concludes(c, answer, attempts[c] + 1)
  /\ pollWait' = [pollWait EXCEPT ![c] =
                    IF pc'[c] \in {"polling", "done"} THEN pollDelay ELSE 0]
  /\ UNCHANGED <<sent, accepted, runs, backoffs, abandoned>>

\* a countdown kept in a field that all calls of the publisher share
BackoffShared(c) ==
  /\ pc[c] = "backoff"
  /\ retries' = [d \in Callers |-> NextRetries(retries[d])]
  /\ pc' = [pc EXCEPT ![c] = "attempt"]
  /\ error' = [error EXCEPT ![c] = NoError]
  /\ status' = [status EXCEPT ![c] = NoStatus]
  /\ backoffs' = [backoffs EXCEPT ![c] = Append(@, BackoffDelay(retries[c]))]
  /\ UNCHANGED <<params, tx, txHash, attempts, result,
                 sent, accepted, sawFailed, sawTimeout,
                 runs, pollWait, abandoned>>

\* retry, catch block: the retryDelay wait is over, retry(fn, retries - 1)
\* runs fn again; the error caught by the outer frame is not read again
Backoff(c) ==
  /\ pc[c] = "backoff"
  /\ retries' = [retries EXCEPT ![c] = NextRetries(@)]
  /\ pc' = [pc EXCEPT ![c] = "attempt"]
  /\ error' = [error EXCEPT ![c] = NoError]
  /\ status' = [status EXCEPT ![c] = NoStatus]
  /\ backoffs' = [backoffs EXCEPT ![c] = Append(@, BackoffDelay(retries[c]))]
  /\ UNCHANGED <<params, tx, txHash, attempts, result,
                 sent, accepted, sawFailed, sawTimeout,
                 runs, pollWait, abandoned>>

\* the caller stops awaiting the promise of a submitted publication; the
\* promise has no cancellation handle and the call runs on
Abandon(c) ==
  /\ pc[c] \in {"waiting", "polling"}
  /\ ~abandoned[c]
  /\ abandoned' = [abandoned EXCEPT ![c] = TRUE]
  /\ UNCHANGED <<pc, params, retries, tx, txHash, status, attempts, result,
                 error, sent, accepted, sawFailed, sawTimeout,
                 runs, backoffs, pollWait>>

\* ------------------------------------------------------- specifications

\* one publishToOracle call, any attestation
Next ==
  \/ Invoke("A", PublishParams)
  \/ PublishWithProof("A")
  \/ BuildLegacy("A")
  \/ SignAndSend("A")
  \/ Send("A")
  \/ FirstQuery("A")
  \/ Repoll("A")
  \/ Backoff("A")

Spec == Init /\ [][Next]_vars

\* the same call when every ledger call and every timer eventually returns
FairSpec == Spec /\ WF_vars(Next)

\* two publishToOracle calls interleaved at their awaits
NextPair ==
  \/ \E c \in Callers : Invoke(c, PairParams)
  \/ \E c \in Callers : PublishWithProof(c)
  \/ \E c \in Callers : BuildLegacy(c)
  \/ \E c \in Callers : SignAndSend(c)
  \/ \E c \in Callers : Send(c)
  \/ \E c \in Callers : FirstQuery(c)
  \/ \E c \in Callers : Repoll(c)
  \/ \E c \in Callers : Backoff(c)

SpecPair == Init /\ [][NextPair]_vars

\* one call whose caller may abandon the wait for confirmation
NextAbandon ==
  \/ Invoke("A", PairParams)
  \/ PublishWithProof("A")
  \/ BuildLegacy("A")
  \/ SignAndSend("A")
  \/ Send("A")
  \/ FirstQuery("A")
  \/ Repoll("A")
  \/ Backoff("A")
  \/ Abandon("A")

SpecAbandon == Init /\ [][NextAbandon]_vars

\* ---------------------------------------------------------------- claims

Terminal == {"done", "failed"}

\* the step in which call c hands a signed envelope to the ledger
Transmits(c) == pc[c] = "built" /\ pc'[c] = "signed"

\* C1: a second publishToOracle call with the same attestation, made while
\* the first call's publication is not Failed, sends no transaction.
C1_IdempotentSubmission ==
  [][(params["B"] = params["A"] /\ pc["A"] # "failed") => ~Transmits("B")]_vars

\* C2: once the ledger has returned a transaction identifier to a call, the
\* call sends no further transaction, whatever the confirmation yields.
C2_NoResubmitAfterAccept ==
  [][\A c \in Callers : accepted[c] => ~Transmits(c)]_vars

\* C3: a call whose status query answered FAILED ends Failed with the
\* on-chain failure error and never ends with success.
C3_FailedIsTerminal ==
  \A c \in Callers :
    (sawFailed[c] /\ pc[c] \in Terminal) =>
      (pc[c] = "failed" /\ error[c].kind = "E_ONCHAIN")

\* C4: a call whose polling ran out with NOT_FOUND ends Failed with the
\* confirmation-timeout error and never ends Confirmed.
C4_TimeoutIsTerminal ==
  \A c \in Callers :
    (sawTimeout[c] /\ pc[c] \in Terminal) =>
      (pc[c] = "failed" /\ error[c].kind = "E_TIMEOUT")

\* C5: a call reports success only after it sent a submission and the
\* ledger returned the transaction identifier the result carries.
C5_ConfirmedAfterSubmitted ==
  \A c \in Callers :
    pc[c] = "done" =>
      /\ sent[c] # {}
      /\ accepted[c]
      /\ result[c].txHash.src = "ledger"

\* C6: when the status query answers SUCCESS after K answers of NOT_FOUND,
\* for every K in 0..maxAttempts, the call returns success with the hash of
\* that transaction, in that step and without another submission.
C6_NotFoundIsInterim ==
  [][\A c \in Callers :
       (pc[c] \in {"waiting", "polling"} /\ status'[c] = "SUCCESS") =>
         /\ pc'[c] = "done"
         /\ result'[c] = [txHash |-> txHash[c], success |-> TRUE]
         /\ txHash[c] = LedgerHash(c, AttemptNo(retries[c]))
         /\ sent'[c] = sent[c]
         /\ retries'[c] = retries[c]]_vars

\* SUCCESS arrived on the last permitted poll, after maxAttempts NOT_FOUND
C6_Witness ==
  /\ pc["A"] = "done"
  /\ status["A"] = "SUCCESS"
  /\ attempts["A"] = maxAttempts
  /\ retries["A"] = maxRetries
  /\ result["A"].txHash = LedgerHash("A", 1)

\* C7: every publishToOracle call eventually ends with a result or with a
\* thrown error.
C7_Terminates ==
  \A c \in {"A"} : (pc[c] # "idle") ~> (pc[c] \in Terminal)

\* the call threw after its last retry ran into the confirmation timeout
C7_Witness ==
  /\ pc["A"] = "failed"
  /\ retries["A"] = 0
  /\ error["A"].kind = "E_TIMEOUT"

\* the kinds of error the step of an attempt at position p can raise, the
\* ledger having last answered st
RaisedAt(p, st) ==
  CASE p = "attempt" -> {"E_BUILD"}
    [] p = "built" -> {"E_SIGN"}
    [] p = "signed" -> {"E_SEND", "E_NOHASH"}
    [] p \in {"waiting", "polling"} ->
         IF st = "FAILED" THEN {"E_ONCHAIN"}
         ELSE IF st = "NOT_FOUND" /\ p = "polling" THEN {"E_TIMEOUT", "E_QUERY"}
         ELSE {"E_QUERY"}
    [] OTHER -> {}

\* C8: when the last attempt of a call fails, the call throws the error that
\* this attempt raised, not an earlier or a generic one.
C8_LastErrorRetained ==
  [][\A c \in Callers :
       (pc[c] # "failed" /\ pc'[c] = "failed") =>
         /\ error'[c].attempt = maxRetries + 1
         /\ error'[c].attempt = AttemptNo(retries[c])
         /\ error'[c].kind \in RaisedAt(pc[c], status'[c])]_vars

\* the last attempt timed out after an earlier attempt failed on-chain
C8_Witness ==
  /\ pc["A"] = "failed"
  /\ error["A"] = [kind |-> "E_TIMEOUT", attempt |-> maxRetries + 1]
  /\ sawFailed["A"]

\* C9: no step of a call changes its publish parameters, and every request
\* the call transmits is the one built from these parameters.
C9_SameAttestationOnRetry ==
  [][\A c \in Callers :
       pc[c] # "idle" =>
         /\ params'[c] = params[c]
         /\ \A r \in sent'[c] :
              /\ r.asset_id = toAsset(params[c].assetId)
              /\ r.price = params[c].price
              /\ r.timestamp = params[c].timestamp]_vars

\* the fourth attempt transmitted after an earlier attempt was accepted
C9_Witness ==
  /\ pc["A"] = "signed"
  /\ retries["A"] = 0
  /\ accepted["A"]
  /\ Cardinality(sent["A"]) = 1

\* C10: an attestation that carries a proof is never submitted through
\* set_asset_price, and one without a proof is submitted only through it.
C10_EntryPointFollowsProof ==
  \A c \in Callers :
    \A r \in sent[c] :
      (r.entry = "set_asset_price") <=> ~Truthy(params[c].proof)

\* the call has a submitted transaction whose confirmation it polls or polled
Submitted(c) == txHash[c] # NoHash

\* C11: a submitted transaction gets at most maxAttempts + 1 status queries,
\* each re-poll comes after the fixed wait, and a query is issued only as
\* long as every earlier answer was NOT_FOUND.
C11_PollingBounded ==
  \A c \in Callers :
    /\ pc[c] = "waiting" => (status[c] = NoStatus /\ attempts[c] = 0)
    /\ pc[c] = "polling" =>
         /\ status[c] = "NOT_FOUND"
         /\ attempts[c] + 1 <= maxAttempts
         /\ attempts[c] >= 1 => pollWait[c] = pollDelay
    /\ (pc[c] = "done" /\ Submitted(c)) =>
         /\ attempts[c] + 1 <= maxAttempts + 1
         /\ attempts[c] >= 1 => pollWait[c] = pollDelay

\* the twenty-first query is about to be issued after twenty NOT_FOUND
C11_Witness ==
  /\ pc["A"] = "polling"
  /\ attempts["A"] = maxAttempts - 1
  /\ pollWait["A"] = pollDelay

\* everything call c owns
Own(c) ==
  <<pc[c], params[c], retries[c], tx[c], txHash[c], status[c], attempts[c],
    result[c], error[c], sent[c], accepted[c], runs[c], backoffs[c],
    pollWait[c]>>

\* C12: interleaved calls are independent: a step of one call leaves the
\* retry count, backoff waits and polling count of the other untouched, a
\* call ready to submit can submit whatever the other is waiting for, and
\* each call keeps its own bounds.
C12_CallsIndependent ==
  /\ [][\E c \in Callers : \A d \in Callers \ {c} : Own(d)' = Own(d)]_vars
  /\ [](\A c \in Callers :
          /\ pc[c] = "built" => ENABLED SignAndSend(c)
          /\ retries[c] \in 0..maxRetries
          /\ runs[c] <= maxRetries + 1
          /\ attempts[c] <= maxAttempts
          /\ pc[c] = "failed" => runs[c] = maxRetries + 1)

\* A is stalled in confirmation polling while B, for another symbol, has
\* submitted in its second attempt
C12_Witness ==
  /\ pc["A"] = "polling" /\ attempts["A"] = 5 /\ retries["A"] = maxRetries
  /\ pc["B"] = "signed" /\ retries["B"] = maxRetries - 1
  /\ params["A"].assetId # params["B"].assetId

\* C13: a publication whose caller abandoned the wait stays Submitted with
\* its transaction identifier until a poll of that transaction resolves it,
\* and no new submission is made for it.
C13_AbandonedStaysSubmitted ==
  [][\A c \in Callers :
       abandoned[c] =>
         /\ ~Transmits(c)
         /\ \/ pc'[c] \in {"waiting", "polling", "done"} /\ txHash'[c] = txHash[c]
            \/ pc'[c] = "failed" /\ error'[c].kind = "E_ONCHAIN"
            \/ pc[c] \in Terminal /\ pc'[c] = pc[c]]_vars

\* C14: fn runs at most maxRetries + 1 times in a call, exactly that often
\* when every attempt fails, and the retries counter never drops below 0.
C14_AttemptCount ==
  \A c \in Callers :
    /\ runs[c] <= maxRetries + 1
    /\ retries[c] >= 0
    /\ pc[c] = "failed" => runs[c] = maxRetries + 1

\* all four attempts ran and failed
C14_Witness ==
  /\ pc["A"] = "failed"
  /\ runs["A"] = maxRetries + 1
  /\ retries["A"] = 0

\* C15: one backoff wait lies between two consecutive attempts, a later wait
\* is never shorter than an earlier one, and no wait follows the last failed
\* attempt.
C15_BackoffOrdering ==
  \A c \in Callers :
    /\ pc[c] = "attempt" => Len(backoffs[c]) = runs[c]
    /\ pc[c] \notin {"idle", "attempt"} => Len(backoffs[c]) = runs[c] - 1
    /\ \A i \in 1..Len(backoffs[c]) : \A j \in i..Len(backoffs[c]) :
         backoffs[c][i] <= backoffs[c][j]

\* the call failed after four attempts and three waits
C15_Witness ==
  /\ pc["A"] = "failed"
  /\ runs["A"] = maxRetries + 1
  /\ Len(backoffs["A"]) = maxRetries

\* C16: once an attempt has returned a result the call does nothing more,
\* and the txHash of the result is the hash that this attempt obtained.
C16_StopsAtFirstSuccess ==
  /\ [][\A c \in Callers : result[c] # NoResult => Own(c)' = Own(c)]_vars
  /\ [](\A c \in Callers :
          /\ result[c] # NoResult => pc[c] = "done"
          /\ (pc[c] = "done" /\ Submitted(c)) =>
               /\ result[c].txHash = txHash[c]
               /\ txHash[c] = LedgerHash(c, runs[c]))

\* the third attempt succeeded after two attempts whose transactions failed
C16_Witness ==
  /\ pc["A"] = "done"
  /\ runs["A"] = 3
  /\ sawFailed["A"] /\ sawTimeout["A"]
  /\ result["A"].txHash = LedgerHash("A", 3)

\* C17: a call reports success for a submitted transaction only if the last
\* status the ledger returned for it was SUCCESS.
C17_ConfirmedMeansSuccess ==
  \A c \in Callers :
    (pc[c] = "done" /\ Submitted(c)) => status[c] = "SUCCESS"

\* C18: a send that yields no hash makes the attempt throw: no status query
\* is started for it, it is not reported as success, and it uses up one
\* attempt of the retry.
C18_NoHashFailsAttempt ==
  /\ [][\A c \in Callers :
          (pc[c] = "signed" /\ pc'[c] # "signed" /\ txHash'[c] = NoHash) =>
            /\ pc'[c] = (IF retries[c] = 0 THEN "failed" ELSE "backoff")
            /\ error'[c].kind \in {"E_NOHASH", "E_SEND"}
            /\ error'[c].attempt = runs[c]
            /\ result'[c] = NoResult]_vars
  /\ [](\A c \in Callers : pc[c] \in {"waiting", "polling"} => Submitted(c))

\* the last attempt ended with a send that returned no hash
C18_Witness ==
  /\ pc["A"] = "failed"
  /\ error["A"] = [kind |-> "E_NOHASH", attempt |-> maxRetries + 1]

\* a transaction hash that is not the empty string
NonEmptyHash(h) ==
  \/ h.src = "ledger"
  \/ h.src = "mock" /\ Len(h.text) > 0

\* C19: every result a call returns has success = true and a non-empty
\* txHash, and a call that failed has thrown an error and returned nothing.
C19_FailureIsThrown ==
  \A c \in Callers :
    /\ result[c] # NoResult <=> pc[c] = "done"
    /\ pc[c] = "done" =>
         (result[c].success = TRUE /\ NonEmptyHash(result[c].txHash))
    /\ pc[c] = "failed" => error[c] # NoError

\* the call threw the confirmation timeout and returned no result
C19_Witness ==
  /\ pc["A"] = "failed"
  /\ error["A"].kind = "E_TIMEOUT"
  /\ result["A"] = NoResult
  /\ sawFailed["A"]

====
